---- MODULE Spec2Model ----
(***************************************************************************)
(* Model of sass.py (libsass-python 0.3.0): the keyword dispatcher         *)
(* compile and the helper and_join.                                        *)
(*                                                                         *)
(* One behaviour is one call of one of the two public functions.  compile  *)
(* is followed statement block by statement block (pc names the block that *)
(* runs next), so that the order of its checks is part of the model.       *)
(*                                                                         *)
(* Python values are records [type, val]; a Python str carries its text as *)
(* a TLA+ string, and Chars gives the characters of the strings the code   *)
(* iterates over.                                                          *)
(***************************************************************************)
EXTENDS Integers, Sequences, FiniteSets, TLC

VARIABLES pc, call, kwargs, modes, output_style, include_paths, image_path,
          s, v, calls, outcome, strings

vars == <<pc, call, kwargs, modes, output_style, include_paths, image_path,
          s, v, calls, outcome, strings>>

(***************************************************************************)
(* Bounds of the inputs.                                                   *)
(***************************************************************************)
\* longest sequence handed to and_join
MaxStrings == 4
\* longest list given as include_paths
MaxPaths == 3
\* longest tuple given as dirname
MaxDirname == 3

(***************************************************************************)
(* Python values.                                                          *)
(***************************************************************************)
PyStr(x) == [type |-> "str", val |-> x]
PyInt(n) == [type |-> "int", val |-> n]
PyList(xs) == [type |-> "list", val |-> xs]
PyTuple(xs) == [type |-> "tuple", val |-> xs]
PyNone == [type |-> "NoneType", val |-> "None"]
\* a local variable that has not been assigned yet
Unbound == [type |-> "unbound", val |-> ""]

\* isinstance(x, basestring)
IsBasestring(x) == x.type \in {"str", "unicode"}

\* isinstance(x, collections.Sequence): in Python 2 the ABC has tuple, list,
\* basestring (so str and unicode), buffer and xrange registered.
IsSequence(x) == x.type \in {"tuple", "list", "str", "unicode", "buffer", "xrange"}

\* The characters of the strings that the code iterates over.
Chars(x) ==
    CASE x = "" -> <<>>
      [] x = "a" -> <<"a">>
      [] x = "ab" -> <<"a", "b">>
      [] x = "a:b:c" -> <<"a", ":", "b", ":", "c">>

\* iter(x): the items a for loop, str.join or tuple unpacking draws from x.
\* Only called on iterable values.
Items(x) ==
    IF IsBasestring(x) THEN [i \in 1..Len(Chars(x.val)) |-> PyStr(Chars(x.val)[i])]
    ELSE x.val

IsIterable(x) == x.type \in {"tuple", "list", "str", "unicode"}

\* repr(x) of the values that reach an error message
Repr(x) ==
    CASE x.type = "int" -> (CASE x.val = 0 -> "0" [] x.val = 1 -> "1" [] x.val = 7 -> "7")
      [] x.type = "NoneType" -> "None"
      [] x.type = "str" -> "'" \o x.val \o "'"

\* sep.join(items) for a sequence of texts
RECURSIVE join(_, _)
join(sep, items) ==
    IF items = <<>> THEN ""
    ELSE IF Len(items) = 1 THEN items[1]
    ELSE items[1] \o sep \o join(sep, Tail(items))

\* the orders in which a set or a dict may be iterated
Orders(S) ==
    {f \in [1..Cardinality(S) -> S] : \A i, j \in DOMAIN f : i # j => f[i] # f[j]}

(***************************************************************************)
(* and_join                                                                *)
(***************************************************************************)
\* and_join with the enumerate index taken as one-based: no item is the last
and_joinOneBased(strs) ==
    LET last == Len(strs) - 1 IN
    IF last = 0 THEN strs[1]
    ELSE IF last < 0 THEN ""
    ELSE join(", ", [i \in 1..Len(strs) |->
                        IF i = last THEN "and " \o strs[i] ELSE strs[i]])

and_join(strs) ==
    LET last == Len(strs) - 1 IN
    IF last = 0 THEN strs[1]
    ELSE IF last < 0 THEN ""
    ELSE join(", ", [i \in 1..Len(strs) |->
                        IF i - 1 = last THEN "and " \o strs[i] ELSE strs[i]])

(***************************************************************************)
(* Module constants and the native layer.                                  *)
(***************************************************************************)
MODES == {"string", "filename", "dirname"}

\* _sass.OUTPUT_STYLES: style name -> flag integer
OUTPUT_STYLES ==
    [n \in {"nested", "expanded", "compact", "compressed"} |->
        CASE n = "nested" -> 0 [] n = "expanded" -> 1
          [] n = "compact" -> 2 [] n = "compressed" -> 3]

\* what a native entry point may return: (success flag, payload)
NativeResults ==
    {TRUE, FALSE} \X {PyStr("a { color: blue; }"), PyStr("error: unexpected token"), PyNone}

\* the file system seen by os.path.isfile
fs == [p \in {"style.scss", "styles", "missing.scss"} |->
        CASE p = "style.scss" -> "file" [] p = "styles" -> "dir"
          [] p = "missing.scss" -> "missing"]

isfile(p) == fs[p] = "file"

(***************************************************************************)
(* Outcomes of a call.                                                     *)
(***************************************************************************)
Running == [kind |-> "running"]
Return(x) == [kind |-> "return", value |-> x]
\* raise type(arg) at the given source line
Raise(t, arg, line) == [kind |-> "raise", type |-> t, arg |-> arg, line |-> line]

(***************************************************************************)
(* Inputs.                                                                 *)
(***************************************************************************)
Absent == [type |-> "absent", val |-> ""]

PathName(i) == CASE i = 1 -> "a" [] i = 2 -> "b" [] i = 3 -> "c" [] OTHER -> "d"
DirName(i) == CASE i = 1 -> "sass" [] i = 2 -> "css" [] OTHER -> "extra"

\* the sequences of distinct path names of length <= MaxPaths
PathLists ==
    UNION {{f \in [1..n -> {PyStr(PathName(i)) : i \in 1..MaxPaths}] :
                \A i, j \in 1..n : i # j => f[i] # f[j]} : n \in 0..MaxPaths}

StringValues == {PyStr("a { b { color: blue; } }")}
FilenameValues == {PyStr(p) : p \in DOMAIN fs}
DirnameValues ==
    {PyTuple([i \in 1..n |-> PyStr(DirName(i))]) : n \in 0..MaxDirname}
        \cup {PyStr("ab"), PyStr("a"), PyInt(1)}
OutputStyleValues ==
    {PyStr(n) : n \in DOMAIN OUTPUT_STYLES} \cup {PyStr("bogus"), PyInt(7)}
IncludePathsValues ==
    {PyList(xs) : xs \in PathLists}
        \cup {PyTuple(<<PyStr("a"), PyStr("b")>>), PyList(<<PyInt(1)>>),
              PyStr("a:b:c"), PyStr("a"), PyInt(0)}
ImagePathValues == {PyStr("img"), PyNone}

Options(values) == values \cup {Absent}

\* the keyword arguments of a call: the keys that were given
MakeKwargs(opt) == [k \in {k \in DOMAIN opt : opt[k] # Absent} |-> opt[k]]

\* kwargs.pop(key), the dict afterwards
Pop(kw, key) == [k \in DOMAIN kw \ {key} |-> kw[k]]

Words == {"Korea", "Japan", "China", "Taiwan"}
StringSeqs == UNION {[1..n -> Words] : n \in 0..MaxStrings}

(***************************************************************************)
(* Initial states: a call of compile, or a call of and_join.               *)
(***************************************************************************)
Locals0 ==
    /\ modes = {}
    /\ output_style = Unbound
    /\ include_paths = Unbound
    /\ image_path = Unbound
    /\ s = Unbound
    /\ v = Unbound
    /\ calls = <<>>
    /\ outcome = Running

InitCompile ==
    /\ pc = "modes"
    /\ \E a \in Options(StringValues), b \in Options(FilenameValues),
          c \in Options(DirnameValues), d \in Options(OutputStyleValues),
          e \in Options(IncludePathsValues), f \in Options(ImagePathValues) :
          kwargs = MakeKwargs([string |-> a, filename |-> b, dirname |-> c,
                               output_style |-> d, include_paths |-> e,
                               image_path |-> f])
    /\ call = [fn |-> "compile", kwargs |-> kwargs]
    /\ strings = <<>>
    /\ Locals0

InitAndJoin ==
    /\ pc = "and_join"
    /\ strings \in StringSeqs
    /\ kwargs = <<>>
    /\ call = [fn |-> "and_join", kwargs |-> <<>>]
    /\ Locals0

Init == InitCompile \/ InitAndJoin

(***************************************************************************)
(* compile, lines 110-118: which mode keywords were given.                 *)
(***************************************************************************)
\* for mode_name in MODES: if mode_name in kwargs: modes.add(mode_name)
PresentModes(kw) == {m \in MODES : m \in DOMAIN kw}

\* if not modes
NoMode(ms) == ms = {}

\* the exclusivity test off by one: elif len(modes) > 2
SeveralModesOffByOne(ms) == Cardinality(ms) > 2

\* the exclusivity test left out
SeveralModesUnchecked(ms) == FALSE

\* elif len(modes) > 1
SeveralModes(ms) == Cardinality(ms) > 1

ModesStep ==
    /\ pc = "modes"
    /\ LET ms == PresentModes(kwargs) IN
       /\ modes' = ms
       /\ IF NoMode(ms) THEN
             \E order \in Orders(MODES) :
                /\ outcome' = Raise("TypeError",
                        PyStr("choose one at least in " \o and_join(order)), 115)
                /\ pc' = "done"
          ELSE IF SeveralModes(ms) THEN
             \E order \in Orders(ms) :
                /\ outcome' = Raise("TypeError",
                        PyStr(and_join(order) \o " are exclusive each other; "
                              \o "cannot be used at a time"), 117)
                /\ pc' = "done"
          ELSE
             /\ pc' = "output_style"
             /\ outcome' = outcome
    /\ UNCHANGED <<call, kwargs, output_style, include_paths, image_path,
                   s, v, calls, strings>>

(***************************************************************************)
(* compile, lines 119-130: output_style.                                   *)
(***************************************************************************)
\* try: x = kwargs.pop(key) / except KeyError: x = default
PopOr(kw, key, default) == IF key \in DOMAIN kw THEN kw[key] ELSE default

\* OUTPUT_STYLES[output_style] raises KeyError
UnknownStyle(name) == name \notin DOMAIN OUTPUT_STYLES

\* the message built from the wrong collection: and_join(MODES)
UnsupportedStyleMessageOfModes(name, order) ==
    name \o " is unsupported output_style; choose one of "
         \o and_join(<<"string", "filename", "dirname">>)

\* '{0} is unsupported output_style; choose one of {1}'.format(...)
UnsupportedStyleMessage(name, order) ==
    name \o " is unsupported output_style; choose one of " \o and_join(order)

OutputStyleStep ==
    /\ pc = "output_style"
    /\ LET given == PopOr(kwargs, "output_style", PyStr("nested")) IN
       /\ kwargs' = Pop(kwargs, "output_style")
       /\ IF ~IsBasestring(given) THEN
             /\ outcome' = Raise("TypeError",
                    PyStr("output_style must be a string, not " \o Repr(given)), 124)
             /\ output_style' = given
             /\ pc' = "done"
          ELSE IF UnknownStyle(given.val) THEN
             \E order \in Orders(DOMAIN OUTPUT_STYLES) :
                /\ outcome' = Raise("CompileError",
                        PyStr(UnsupportedStyleMessage(given.val, order)), 129)
                /\ output_style' = given
                /\ pc' = "done"
          ELSE
             /\ output_style' = PyInt(OUTPUT_STYLES[given.val])
             /\ outcome' = outcome
             /\ pc' = "include_paths"
    /\ UNCHANGED <<call, modes, include_paths, image_path, s, v, calls, strings>>

(***************************************************************************)
(* compile, lines 131-141: include_paths.                                  *)
(***************************************************************************)
\* the first item of a sequence that str.join rejects, 0 when there is none
FirstNonString(items) ==
    IF \A i \in DOMAIN items : IsBasestring(items[i]) THEN 0
    ELSE CHOOSE i \in DOMAIN items :
            /\ ~IsBasestring(items[i])
            /\ \A j \in 1..(i - 1) : IsBasestring(items[j])

\* ':'.join(include_paths) of items that are all strings
JoinPaths(x) == join(":", [i \in DOMAIN Items(x) |-> Items(x)[i].val])

IncludePathsStep ==
    /\ pc = "include_paths"
    /\ kwargs' = Pop(kwargs, "include_paths")
    /\ IF "include_paths" \notin DOMAIN kwargs THEN
          /\ include_paths' = PyStr("")
          /\ outcome' = outcome
          /\ pc' = "image_path"
       ELSE LET given == kwargs["include_paths"] IN
          IF IsSequence(given) THEN
             LET bad == FirstNonString(Items(given)) IN
             IF bad = 0 THEN
                /\ include_paths' = PyStr(JoinPaths(given))
                /\ outcome' = outcome
                /\ pc' = "image_path"
             ELSE
                \* str.join itself raises
                /\ include_paths' = given
                /\ outcome' = Raise("TypeError",
                       PyStr("sequence item " \o Repr(PyInt(bad - 1))
                             \o ": expected string, "
                             \o Items(given)[bad].type \o " found"), 137)
                /\ pc' = "done"
          ELSE IF ~IsBasestring(given) THEN
             /\ include_paths' = given
             /\ outcome' = Raise("TypeError",
                    PyStr("include_paths must be a sequence of strings, or "
                          \o "a colon-separated string, not " \o Repr(given)), 139)
             /\ pc' = "done"
          ELSE
             /\ include_paths' = given
             /\ outcome' = outcome
             /\ pc' = "image_path"
    /\ UNCHANGED <<call, modes, output_style, image_path, s, v, calls, strings>>

(***************************************************************************)
(* compile, lines 142-149: image_path.                                     *)
(***************************************************************************)
\* the type check of image_path left out
BadImagePathUnchecked(x) == FALSE

\* if not isinstance(image_path, basestring)
BadImagePath(x) == ~IsBasestring(x)

ImagePathStep ==
    /\ pc = "image_path"
    /\ kwargs' = Pop(kwargs, "image_path")
    /\ IF "image_path" \notin DOMAIN kwargs THEN
          /\ image_path' = PyStr(".")
          /\ outcome' = outcome
          /\ pc' = "dispatch"
       ELSE LET given == kwargs["image_path"] IN
          /\ image_path' = given
          /\ IF BadImagePath(given) THEN
                /\ outcome' = Raise("TypeError",
                       PyStr("image_path must be a string, not " \o Repr(given)), 148)
                /\ pc' = "done"
             ELSE
                /\ outcome' = outcome
                /\ pc' = "dispatch"
    /\ UNCHANGED <<call, modes, output_style, include_paths, s, v, calls, strings>>

(***************************************************************************)
(* compile, lines 150-168: the call into the native layer.                 *)
(***************************************************************************)
\* include_paths and image_path handed over in each other's place
NativeArgsSwapped(source, style, paths, image) == source \o <<style, image, paths>>

\* the unpacking replaced by taking the first two items of a longer value
UnpacksAtLeastPair(x) == Len(Items(x)) >= 2

\* os.path.exists in the place of os.path.isfile
NotAFileExists(x) == fs[x.val] = "missing"

\* the positional arguments of a native entry point: the source first
NativeArgs(source, style, paths, image) == source \o <<style, paths, image>>

\* search_path, output_path = value: the value is unpacked into two names
UnpacksIntoPair(x) == Len(Items(x)) = 2

\* if not os.path.isfile(filename)
NotAFile(x) == ~isfile(x.val)

\* the native call: the invocation is recorded, the entry point answers
Native(fn, source) ==
    /\ calls' = Append(calls, [fn |-> fn,
                    args |-> NativeArgs(source, output_style, include_paths, image_path)])
    /\ \E r \in NativeResults : s' = r[1] /\ v' = r[2]
    /\ outcome' = outcome
    /\ pc' = "result"

\* an exception leaves compile before any native call
Fail(exc) ==
    /\ outcome' = exc
    /\ pc' = "done"
    /\ UNCHANGED <<s, v, calls>>

DispatchStep ==
    /\ pc = "dispatch"
    /\ IF "string" \in modes THEN
          /\ kwargs' = Pop(kwargs, "string")
          /\ Native("compile_string", <<kwargs["string"]>>)
       ELSE IF "filename" \in modes THEN
          /\ kwargs' = Pop(kwargs, "filename")
          /\ IF NotAFile(kwargs["filename"]) THEN
                Fail(Raise("IOError",
                    PyStr(Repr(kwargs["filename"]) \o " seems not a file"), 156))
             ELSE Native("compile_filename", <<kwargs["filename"]>>)
       ELSE IF "dirname" \in modes THEN
          /\ kwargs' = Pop(kwargs, "dirname")
          /\ LET value == kwargs["dirname"] IN
             IF ~IsIterable(value) THEN
                \* the unpacking raises TypeError, which except ValueError lets through
                Fail(Raise("TypeError",
                    PyStr("'" \o value.type \o "' object is not iterable"), 161))
             ELSE IF ~UnpacksIntoPair(value) THEN
                Fail(Raise("ValueError",
                    PyStr("dirname must be a pair of (source_dir, output_dir)"), 163))
             ELSE Native("compile_dirname", <<Items(value)[1], Items(value)[2]>>)
       ELSE
          /\ kwargs' = kwargs
          /\ Fail(Raise("TypeError", PyStr("something went wrong"), 168))
    /\ UNCHANGED <<call, modes, output_style, include_paths, image_path, strings>>

(***************************************************************************)
(* compile, lines 169-171: the native answer becomes the call's outcome.   *)
(***************************************************************************)
\* the success flag ignored: a native failure is returned as a value
TranslateIgnoringFlag(flag, payload) == Return(payload)

Translate(flag, payload) ==
    IF flag THEN Return(payload) ELSE Raise("CompileError", payload, 171)

ResultStep ==
    /\ pc = "result"
    /\ outcome' = Translate(s, v)
    /\ pc' = "done"
    /\ UNCHANGED <<call, kwargs, modes, output_style, include_paths, image_path,
                   s, v, calls, strings>>

(***************************************************************************)
(* A call of and_join(strings).                                            *)
(***************************************************************************)
AndJoinStep ==
    /\ pc = "and_join"
    /\ outcome' = Return(PyStr(and_join(strings)))
    /\ pc' = "done"
    /\ UNCHANGED <<call, kwargs, modes, output_style, include_paths, image_path,
                   s, v, calls, strings>>

Next ==
    \/ ModesStep
    \/ OutputStyleStep
    \/ IncludePathsStep
    \/ ImagePathStep
    \/ DispatchStep
    \/ ResultStep
    \/ AndJoinStep

Spec == Init /\ [][Next]_vars

(***************************************************************************)
(* Vocabulary of the properties: what a call was given, read from the      *)
(* arguments it was made with.                                             *)
(***************************************************************************)
IsCompile == call.fn = "compile"
IsAndJoin == call.fn = "and_join"
Done == pc = "done"
Given(key) == key \in DOMAIN call.kwargs
Arg(key) == call.kwargs[key]

ModeKeys == {"string", "filename", "dirname"}
GivenModes == {m \in ModeKeys : Given(m)}
ModeCount == Cardinality(GivenModes)
OnlyMode(m) == GivenModes = {m}

ValidStyleNames == {"nested", "expanded", "compact", "compressed"}

Raised == outcome.kind = "raise"
RaisedType(t) == Raised /\ outcome.type = t
Returned == outcome.kind = "return"
\* a usage error: the call itself is malformed
UsageError == Raised /\ outcome.type \in {"TypeError", "ValueError"}
NoNativeCall == calls = <<>>

\* C1: a compile call with zero, or with two or more, of the mode keys
\* string, filename, dirname raises TypeError and never invokes a native
\* entry point, whatever the other options are.
C1_ModeCountError ==
    (IsCompile /\ ModeCount # 1) =>
        /\ NoNativeCall
        /\ pc \in {"modes", "done"}
        /\ Done => RaisedType("TypeError")

C1_Witness ==
    /\ IsCompile /\ Done
    /\ GivenModes = {"string", "dirname"}
    /\ Given("output_style") /\ Given("include_paths") /\ Given("image_path")
    /\ RaisedType("TypeError")
    /\ NoNativeCall

\* C2: after a native entry point has answered (flag, payload), compile
\* returns payload unchanged when flag is true and raises CompileError
\* carrying exactly payload when flag is false; nothing else can happen.
C2_ResultTranslation ==
    (IsCompile /\ Done /\ ~NoNativeCall) =>
        /\ s = TRUE => outcome = [kind |-> "return", value |-> v]
        /\ s = FALSE =>
              /\ RaisedType("CompileError")
              /\ outcome.arg = v

C2_Witness ==
    /\ IsCompile /\ Done
    /\ calls # <<>> /\ calls[1].fn = "compile_dirname"
    /\ s = FALSE
    /\ v = PyStr("error: unexpected token")
    /\ RaisedType("CompileError")
    /\ outcome.arg = PyStr("error: unexpected token")

\* the include_paths argument of the native invocation: the last but one
ForwardedIncludePaths == calls[1].args[Len(calls[1].args) - 1]

\* the texts of a sequence of strings with ":" between them
RECURSIVE ColonSeparated(_)
ColonSeparated(xs) ==
    IF xs = <<>> THEN ""
    ELSE IF Len(xs) = 1 THEN xs[1].val
    ELSE xs[1].val \o ":" \o ColonSeparated(Tail(xs))

\* C3: include_paths given as a sequence of strings is forwarded to the
\* native layer joined with ":"; given as a single string it is forwarded
\* as that very string, unchanged.
C3_IncludePathsForwarded ==
    (IsCompile /\ ~NoNativeCall /\ Given("include_paths")) =>
        /\ Arg("include_paths").type \in {"list", "tuple"} =>
              ForwardedIncludePaths = PyStr(ColonSeparated(Arg("include_paths").val))
        /\ Arg("include_paths").type = "str" =>
              ForwardedIncludePaths = Arg("include_paths")

\* items in order separated by ", ", the last one prefixed by "and "
RECURSIVE CommaAnd(_)
CommaAnd(xs) ==
    IF Len(xs) = 1 THEN "and " \o xs[1]
    ELSE xs[1] \o ", " \o CommaAnd(Tail(xs))

\* C4 as stated: and_join gives "" for no item, the item for one item,
\* "a and b" without a comma for two items, and for three or more the items
\* in order separated by ", " with the last one prefixed by "and ".
C4_AndJoinAsStated ==
    (IsAndJoin /\ Done) =>
        /\ Returned
        /\ outcome.value =
              PyStr(CASE Len(strings) = 0 -> ""
                      [] Len(strings) = 1 -> strings[1]
                      [] Len(strings) = 2 -> strings[1] \o " and " \o strings[2]
                      [] OTHER -> CommaAnd(strings))

\* C4, amended: and_join gives "" for no item, the item for one item, and
\* for two or more items the items in order separated by ", " with the last
\* one prefixed by "and " (two items a, b give "a, and b").
C4_AndJoin ==
    (IsAndJoin /\ Done) =>
        /\ Returned
        /\ outcome.value =
              PyStr(CASE Len(strings) = 0 -> ""
                      [] Len(strings) = 1 -> strings[1]
                      [] OTHER -> CommaAnd(strings))

C4_Witness ==
    /\ IsAndJoin /\ Done
    /\ strings = <<"Korea", "Japan">>
    /\ outcome = [kind |-> "return", value |-> PyStr("Korea, and Japan")]

(***************************************************************************)
(* What is wrong with a call, read from its arguments alone.               *)
(***************************************************************************)
StyleTextual == Given("output_style") => Arg("output_style").type = "str"
StyleKnown ==
    Given("output_style") =>
        (Arg("output_style").type = "str" /\ Arg("output_style").val \in ValidStyleNames)
\* the style name the call asks for, "nested" when it names none
StyleName == IF Given("output_style") THEN Arg("output_style").val ELSE "nested"

IncludePathsShaped ==
    Given("include_paths") =>
        \/ Arg("include_paths").type = "str"
        \/ /\ Arg("include_paths").type \in {"list", "tuple"}
           /\ \A i \in DOMAIN Arg("include_paths").val :
                 Arg("include_paths").val[i].type = "str"

ImagePathTextual == Given("image_path") => Arg("image_path").type = "str"

\* the number of components a dirname value unpacks into, -1 when it does
\* not unpack at all
Components(x) ==
    IF x.type \in {"list", "tuple", "str"} THEN Len(x.val) ELSE -1

FilenameIsFile == fs[Arg("filename").val] = "file"
DirnameIsPair == Components(Arg("dirname")) = 2

OptionsValid == StyleKnown /\ IncludePathsShaped /\ ImagePathTextual

\* C5: with exactly one mode key, an output_style named in OUTPUT_STYLES
\* passes style validation with the mapped code; any other textual value
\* raises CompileError with a message listing exactly the valid style names,
\* and no native entry point is invoked; a non-textual value raises
\* TypeError.
C5_OutputStyle ==
    (IsCompile /\ ModeCount = 1 /\ pc \notin {"modes", "output_style"}) =>
        /\ StyleKnown =>
              /\ output_style = PyInt(OUTPUT_STYLES[StyleName])
              /\ Raised => outcome.line \notin {124, 129}
        /\ (StyleTextual /\ ~StyleKnown) =>
              /\ Done /\ RaisedType("CompileError") /\ NoNativeCall
              /\ \E order \in Orders(ValidStyleNames) :
                    outcome.arg = PyStr(StyleName
                        \o " is unsupported output_style; choose one of "
                        \o CommaAnd(order))
        /\ ~StyleTextual =>
              Done /\ RaisedType("TypeError") /\ NoNativeCall

C5_Witness ==
    /\ IsCompile /\ Done /\ OnlyMode("string")
    /\ Given("output_style") /\ Arg("output_style") = PyStr("bogus")
    /\ RaisedType("CompileError")
    /\ outcome.arg = PyStr("bogus is unsupported output_style; choose one of "
                           \o "nested, expanded, compact, and compressed")
    /\ NoNativeCall

\* C6: in filename mode with otherwise valid options, a path that does not
\* exist or is not a regular file raises IOError naming the path and
\* compile_filename is never invoked; an existing regular file reaches
\* compile_filename with that path.
C6_FilenameMode ==
    (IsCompile /\ OnlyMode("filename") /\ OptionsValid) =>
        /\ ~FilenameIsFile =>
              /\ NoNativeCall
              /\ Done =>
                    /\ RaisedType("IOError")
                    /\ outcome.arg = PyStr("'" \o Arg("filename").val
                                           \o "' seems not a file")
        /\ (FilenameIsFile /\ pc \in {"result", "done"}) =>
              /\ Len(calls) = 1
              /\ calls[1].fn = "compile_filename"
              /\ calls[1].args[1] = Arg("filename")

C6_Witness ==
    /\ IsCompile /\ Done /\ OnlyMode("filename") /\ OptionsValid
    /\ Arg("filename") = PyStr("styles")
    /\ RaisedType("IOError")
    /\ NoNativeCall

\* C7: in dirname mode with otherwise valid options, a value that does not
\* unpack into exactly two components raises a usage error and
\* compile_dirname is not invoked; a value with exactly two components
\* reaches compile_dirname as (source_dir, output_dir).
C7_DirnameMode ==
    (IsCompile /\ OnlyMode("dirname") /\ OptionsValid) =>
        /\ ~DirnameIsPair =>
              /\ NoNativeCall
              /\ Done => UsageError
        /\ (DirnameIsPair /\ pc \in {"result", "done"}) =>
              /\ Len(calls) = 1
              /\ calls[1].fn = "compile_dirname"
              /\ Len(calls[1].args) = 5
        /\ (DirnameIsPair /\ Arg("dirname").type = "tuple"
                /\ pc \in {"result", "done"}) =>
              /\ calls[1].args[1] = Arg("dirname").val[1]
              /\ calls[1].args[2] = Arg("dirname").val[2]

C7_Witness ==
    /\ IsCompile /\ Done /\ OnlyMode("dirname") /\ OptionsValid
    /\ Arg("dirname") = PyTuple(<<PyStr("sass"), PyStr("css"), PyStr("extra")>>)
    /\ RaisedType("ValueError")
    /\ NoNativeCall

\* the call is malformed: one of the faults that are usage errors
UsageFault ==
    \/ ModeCount # 1
    \/ ~StyleTextual
    \/ ~IncludePathsShaped
    \/ ~ImagePathTextual
    \/ OnlyMode("dirname") /\ ~DirnameIsPair

\* C8: in one compile call every usage error is raised before any native
\* entry point has been invoked, a native entry point is invoked at most
\* once, a native failure is raised at once and neither retried nor
\* swallowed, and the call ends either returning a value or raising an
\* error, never both and never neither.
C8_OneNativeCallAtMost ==
    IsCompile =>
        /\ Len(calls) <= 1
        /\ UsageFault => NoNativeCall
        /\ UsageError => NoNativeCall
        /\ (Done /\ ~NoNativeCall /\ s = FALSE) => (Raised /\ outcome.arg = v)
        /\ Done <=> (Returned \/ Raised)
        /\ ~Done => (outcome.kind = "running" /\ ENABLED Next)
        /\ Done => ~ENABLED Next

C8_Witness ==
    /\ IsCompile /\ Done /\ OnlyMode("string")
    /\ StyleKnown /\ IncludePathsShaped
    /\ Given("image_path") /\ Arg("image_path") = PyNone
    /\ RaisedType("TypeError")
    /\ NoNativeCall

\* the native entry point of a mode
EntryPoint(m) ==
    CASE m = "string" -> "compile_string"
      [] m = "filename" -> "compile_filename"
      [] m = "dirname" -> "compile_dirname"

\* the source arguments a valid call hands over
SourceArgs ==
    CASE OnlyMode("string") -> <<Arg("string")>>
      [] OnlyMode("filename") -> <<Arg("filename")>>
      [] OnlyMode("dirname") ->
            IF Arg("dirname").type = "str"
            THEN <<PyStr(Chars(Arg("dirname").val)[1]), PyStr(Chars(Arg("dirname").val)[2])>>
            ELSE <<Arg("dirname").val[1], Arg("dirname").val[2]>>

ValidCall ==
    /\ ModeCount = 1
    /\ OptionsValid
    /\ OnlyMode("filename") => FilenameIsFile
    /\ OnlyMode("dirname") => DirnameIsPair

\* C9: a valid call invokes exactly the native entry point of its mode,
\* with the arguments (source..., style_code, include_paths, image_path),
\* style_code being OUTPUT_STYLES[output_style]; an absent option is
\* forwarded as its default: the code of "nested", "" and ".".
C9_NativeInvocation ==
    (IsCompile /\ ValidCall /\ pc \in {"result", "done"}) =>
        /\ Len(calls) = 1
        /\ calls[1].fn = EntryPoint(CHOOSE m \in GivenModes : TRUE)
        /\ calls[1].args = SourceArgs \o
              << PyInt(OUTPUT_STYLES[StyleName]),
                 IF Given("include_paths") THEN include_paths ELSE PyStr(""),
                 IF Given("image_path") THEN Arg("image_path") ELSE PyStr(".") >>
        /\ (Given("include_paths") /\ Arg("include_paths").type \in {"list", "tuple"}) =>
              include_paths = PyStr(ColonSeparated(Arg("include_paths").val))
        /\ ~Given("output_style") =>
              calls[1].args[Len(calls[1].args) - 2] = PyInt(OUTPUT_STYLES["nested"])

C9_Witness ==
    /\ IsCompile /\ pc = "result"
    /\ call.kwargs = [dirname |-> PyTuple(<<PyStr("sass"), PyStr("css")>>)]
    /\ calls = << [fn |-> "compile_dirname",
                   args |-> <<PyStr("sass"), PyStr("css"), PyInt(0), PyStr(""), PyStr(".")>>] >>

\* the first validation step a call fails at: 1 mode count, 2 output_style,
\* 3 include_paths, 4 image_path, 5 the check of the mode; 0 when none
FirstFault ==
    IF ModeCount # 1 THEN 1
    ELSE IF ~StyleKnown THEN 2
    ELSE IF ~IncludePathsShaped THEN 3
    ELSE IF ~ImagePathTextual THEN 4
    ELSE IF \/ OnlyMode("filename") /\ ~FilenameIsFile
            \/ OnlyMode("dirname") /\ ~DirnameIsPair THEN 5
    ELSE 0

\* the validation step a raise statement belongs to; 6: the native answer
StepOfLine(line) ==
    CASE line \in {115, 117} -> 1
      [] line \in {124, 129} -> 2
      [] line \in {137, 139} -> 3
      [] line = 148 -> 4
      [] line \in {156, 161, 163, 168} -> 5
      [] line = 171 -> 6

\* C10: validation runs in the order mode count, output_style,
\* include_paths, image_path, mode-specific check, and a call with several
\* invalid inputs raises the error of the earliest failing step: two mode
\* keys and an unknown output_style raise the mode TypeError; filename mode
\* with an unknown output_style and a missing path raises the CompileError
\* of the style, not the IOError.
C10_EarliestFailure ==
    (IsCompile /\ Done) =>
        /\ FirstFault = 0 => (~NoNativeCall /\ (Raised => StepOfLine(outcome.line) = 6))
        /\ FirstFault # 0 =>
              (Raised /\ NoNativeCall /\ StepOfLine(outcome.line) = FirstFault)
        /\ (ModeCount = 2 /\ StyleTextual /\ ~StyleKnown) => RaisedType("TypeError")
        /\ (OnlyMode("filename") /\ StyleTextual /\ ~StyleKnown /\ ~FilenameIsFile) =>
              RaisedType("CompileError")

C10_Witness ==
    /\ IsCompile /\ Done /\ OnlyMode("filename")
    /\ Given("output_style") /\ Arg("output_style") = PyStr("bogus")
    /\ Arg("filename") = PyStr("missing.scss")
    /\ Given("image_path") /\ Arg("image_path") = PyNone
    /\ RaisedType("CompileError")
    /\ outcome.line = 129

====
